---- MODULE Spec2Model ----
(***************************************************************************)
(* State-machine model of the news_scraper ingestion and scraping core:    *)
(*   app/news/data_loader.py   DataLoader (CSV merge, upsert into Article)  *)
(*   app/news/models.py        Article                                      *)
(*   app/news/apps.py          NewsConfig.ready (auto-load at start-up)     *)
(*   app/news/scraper.py       get_dom, scrape_all_news                     *)
(*   app/news/admin_views.py   scrape_all_news_with_progress                *)
(***************************************************************************)
EXTENDS Integers, Sequences, FiniteSets, TLC

(***************************************************************************)
(* Bounds of the model.                                                    *)
(***************************************************************************)
MaxBatch == 2        \* rows of one DataFrame handed to save_articles_to_database
MaxCalls == 2        \* DataLoader calls made one after another

(***************************************************************************)
(* Values.                                                                 *)
(***************************************************************************)
None == << >>        \* Python None / SQL NULL in a datetime position
NoValue == -1        \* no value returned (yet)

Procs == {1, 2}      \* application processes (workers) using the same database

Links == {"https://techcrunch.com/a", "https://www.foxnews.com/b"}

RECURSIVE Repeat(_, _)
Repeat(s, n) == IF n = 0 THEN "" ELSE s \o Repeat(s, n - 1)

\* Article.title = CharField(max_length=200)
TitleMaxLength == 200
LongTitle == Repeat("t", TitleMaxLength + 1)

\* title, image, source and category as one scrape of a page yields them; every
\* extractor hard-wires its (source, category) pair
Contents == {[title |-> "X", image |-> "", source |-> "TechCrunch",
              category |-> "technology"],
             [title |-> "Y", image |-> "https://img.example/1.jpg",
              source |-> "Fox News", category |-> "lifestyle"],
             [title |-> LongTitle, image |-> "https://img.example/1.jpg",
              source |-> "TechCrunch", category |-> "technology"]}

\* the 'datetime' column as written by the scraper (format_datetime output)
RawDatetimes == {"", "garbled###", "6 Oct 2025, 16:42", "7 Oct 2025, 09:05",
                 "99999999999999999999"}

\* columns of the batch artifact
AllColumns == {"title", "link", "image", "source", "category", "datetime"}
ColumnSets == {AllColumns, AllColumns \ {"title"}, AllColumns \ {"link"}}

Rows == {[link |-> l, title |-> c.title, image |-> c.image, source |-> c.source,
          category |-> c.category, datetime |-> d] :
            l \in Links, c \in Contents, d \in RawDatetimes}

NoRow == [link |-> "", title |-> "", image |-> "", source |-> "",
          category |-> "", datetime |-> ""]

NoArticle == [id |-> 0, url |-> "", title |-> "", image |-> "", source |-> "",
              category |-> "", published_at |-> None, created_at |-> 0]

(***************************************************************************)
(* dateutil.parser.parse(text, fuzzy=True) on the texts of RawDatetimes:   *)
(* a point in time <<year, month, day, hour, minute>>, ParserError (a      *)
(* ValueError) for a text that holds no date, or OverflowError for a text  *)
(* whose number, read as a year, exceeds the largest C integer.            *)
(***************************************************************************)
DateutilOverflows(text) == text = "99999999999999999999"

DateutilRaises(text) ==
    text \notin {"6 Oct 2025, 16:42", "7 Oct 2025, 09:05", "2025-10-06T16:42:00",
                 "2025-10-06", "99999999999999999999"}

DateutilParse(text) ==
    CASE text = "6 Oct 2025, 16:42" -> <<2025, 10, 6, 16, 42>>
      [] text = "7 Oct 2025, 09:05" -> <<2025, 10, 7, 9, 5>>
      [] text = "2025-10-06T16:42:00" -> <<2025, 10, 6, 16, 42>>
      [] text = "2025-10-06" -> <<2025, 10, 6, 0, 0>>

\* DataLoader.parse_publication_datetime: the exceptions of the parse that
\* `except (ValueError, TypeError)` does not catch leave the function
parse_publication_datetime_raises(datetime_str) ==
    datetime_str # "" /\ DateutilOverflows(datetime_str)

\* DataLoader.parse_publication_datetime: the value returned
parse_publication_datetime(datetime_str) ==
    IF datetime_str = ""
    THEN None
    ELSE IF DateutilRaises(datetime_str) \/ DateutilOverflows(datetime_str)
         THEN None
         ELSE DateutilParse(datetime_str)

\* row.get(column, default) of a row of a DataFrame with the columns cols
RowGet(r, cols, column, default) ==
    IF column \in cols THEN r[column] ELSE default

(***************************************************************************)
(* State.                                                                  *)
(***************************************************************************)
VARIABLES
    store,              \* the Article table, rows in insertion order
    now,                \* clock read by auto_now_add; one tick per DataLoader call
    files,              \* data directory: the news_scrape_*.csv snapshots
    pc,                 \* per process: position in the DataLoader code
    batch,              \* per process: the DataFrame, when its rows are known at the call
    columns,            \* per process: the columns of the DataFrame
    nrows,              \* per process: len(dataframe)
    idx,                \* per process: rows of the DataFrame consumed so far
    row,                \* per process: the row of the current iteration
    published_at,       \* per process: parsed timestamp of the current row
    article,            \* per process: the instance returned by get_or_create
    loaded,             \* per process: that instance as the SELECT read it
    articles_created,   \* per process: counter of the running call
    articles_updated,   \* per process: counter of the running call
    outcomes,           \* per process: outcome of every row the call has processed
    countAtStart,       \* per process: number of Articles when the call started
    repeatOf,           \* per process: the call re-ingests the batch of the call before
    ret,                \* per process: value returned by the call
    dom_pc,             \* get_dom: position in the code
    attempt,            \* get_dom: the loop variable of range(5)
    responses,          \* get_dom: what every requests.get of the call met
    dom,                \* get_dom: the value returned
    orch,               \* orchestrator: which of the two functions runs
    orch_pc,            \* orchestrator: position in the code
    scraper_i,          \* orchestrator: extractors of the registry dealt with so far
    scraped_data,       \* orchestrator: the accumulator
    invoked,            \* orchestrator: how every extractor call ended, in call order
    failed_log,         \* scrape_all_news: extractors logged as failed
    progress,           \* scrape_all_news_with_progress: progress_callback calls
    categories_stats,   \* scrape_all_news: count per category
    sources_stats,      \* scrape_all_news: count per source
    ex_k,               \* extractor: index in the registry of the one running
    ex_pc,              \* extractor: position in the code
    ex_n,               \* extractor: candidate blocks the document holds
    ex_i,               \* extractor: candidate blocks dealt with so far
    ex_data,            \* extractor: the list `data`
    ex_ret,             \* extractor: the list returned
    ex_fetches,         \* extractor: get_dom calls issued by the running call
    ex_log,             \* extractor: log_scraper_result calls of the running call
    ex_caller,          \* extractor: the orchestrator whose loop turn made the call
    ex_report,          \* extractor: what that loop turn reported about the source
    second,             \* admin console: the clock, in whole seconds
    active_batches,     \* admin console: the global dict, batch id -> status entry
    batch_results,      \* admin console: the global dict, batch id -> result entry
    batch_files,        \* admin console: news_scrape_<batch id>.csv in the data directory
    w_pc,               \* per worker thread: position in run_scraping_batch
    w_batch_id,         \* per worker thread: its argument batch_id
    w_i,                \* per worker thread: the loop index i of the orchestrator
    w_scraped_data,     \* per worker thread: the orchestrator's accumulator
    cancel_requested,   \* admin console: batch ids an operator has asked to cancel
    pr_pc,              \* personalize_recommendations: position in the code
    user_interests,     \* personalize_recommendations: the argument user_interests
    headlines,          \* personalize_recommendations: the argument headlines
    response,           \* personalize_recommendations: the answer, split at the commas
    recommended_headlines, \* personalize_recommendations: the list being built
    headline_j,         \* personalize_recommendations: position of the for loop of the fill
    pr_ret              \* personalize_recommendations: the list returned

dbVars == <<store, now>>

fetchVars == <<dom_pc, attempt, responses, dom>>

orchVars == <<orch, orch_pc, scraper_i, scraped_data, invoked, failed_log, progress,
              categories_stats, sources_stats>>

extractVars == <<ex_k, ex_pc, ex_n, ex_i, ex_data, ex_ret, ex_fetches, ex_log,
                 ex_caller, ex_report>>

\* the state of the parts modelled further down
batchVars == <<second, active_batches, batch_results, batch_files, w_pc, w_batch_id,
               w_i, w_scraped_data, cancel_requested>>

aiVars == <<pr_pc, user_interests, headlines, response, recommended_headlines,
            headline_j, pr_ret>>

restVars == <<extractVars, batchVars, aiVars>>

loaderVars == <<pc, batch, columns, nrows, idx, row, published_at, article,
                loaded, articles_created, articles_updated, outcomes, countAtStart,
                repeatOf, ret>>

vars == <<dbVars, files, loaderVars, fetchVars, orchVars, restVars>>

\* what no DataLoader step changes
loaderFrame == <<files, fetchVars, orchVars, restVars>>

(***************************************************************************)
(* Storage: Article.objects                                                *)
(***************************************************************************)
\* rows matched by the lookup of get_or_create(url=row['link'], ...)
Matches_TitleAndUrl(r) ==
    {i \in 1..Len(store) : store[i].url = r.link /\ store[i].title = r.title}

Matches(r) == {i \in 1..Len(store) : store[i].url = r.link}

\* the database rejects a title longer than the column (DataError)
StorageRejects(title) == Len(title) > TitleMaxLength

NewArticle_StoresImageAsUrl(r, cols, parsed) ==
    [id |-> Len(store) + 1,
     url |-> RowGet(r, cols, "image", ""),
     title |-> r.title,
     image |-> RowGet(r, cols, "image", ""),
     source |-> r.source,
     category |-> r.category,
     published_at |-> parsed,
     created_at |-> now]

\* Article(url=..., **defaults) inserted by get_or_create; created_at is auto_now_add
NewArticle(r, cols, parsed) ==
    [id |-> Len(store) + 1,
     url |-> r.link,
     title |-> r.title,
     image |-> RowGet(r, cols, "image", ""),
     source |-> r.source,
     category |-> r.category,
     published_at |-> parsed,
     created_at |-> now]

UpdatedArticle_AlwaysOverwrites(a, r, cols, parsed) ==
    [a EXCEPT !.title = r.title,
              !.source = r.source,
              !.category = r.category,
              !.image = RowGet(r, cols, "image", ""),
              !.published_at = IF parsed # None THEN parsed ELSE a.published_at]

UpdatedArticle_SkipsSource(a, r, cols, parsed) ==
    [a EXCEPT !.title = r.title,
              !.category = r.category,
              !.image = RowGet(r, cols, "image", ""),
              !.published_at = IF parsed # None /\ a.published_at = None
                               THEN parsed ELSE a.published_at]

\* lines 114-120: the instance as modified before article.save()
UpdatedArticle(a, r, cols, parsed) ==
    [a EXCEPT !.title = r.title,
              !.source = r.source,
              !.category = r.category,
              !.image = RowGet(r, cols, "image", ""),
              !.published_at = IF parsed # None /\ a.published_at = None
                               THEN parsed ELSE a.published_at]

\* position of the row with primary key id
RowOfId(id) == CHOOSE i \in 1..Len(store) : store[i].id = id

(***************************************************************************)
(* DataLoader.save_articles_to_database                                    *)
(***************************************************************************)
\* the call begins: lines 84-91 (through load_all_data: lines 130-142)
BeginSave(p, df, cols, n, isRepeat) ==
    /\ now' = now + 1
    /\ batch' = [batch EXCEPT ![p] = df]
    /\ columns' = [columns EXCEPT ![p] = cols]
    /\ nrows' = [nrows EXCEPT ![p] = n]
    /\ idx' = [idx EXCEPT ![p] = 0]
    /\ row' = [row EXCEPT ![p] = NoRow]
    /\ published_at' = [published_at EXCEPT ![p] = None]
    /\ article' = [article EXCEPT ![p] = NoArticle]
    /\ loaded' = [loaded EXCEPT ![p] = NoArticle]
    /\ articles_created' = [articles_created EXCEPT ![p] = 0]
    /\ articles_updated' = [articles_updated EXCEPT ![p] = 0]
    /\ outcomes' = [outcomes EXCEPT ![p] = << >>]
    /\ countAtStart' = [countAtStart EXCEPT ![p] = Len(store)]
    /\ repeatOf' = [repeatOf EXCEPT ![p] = isRepeat]
    /\ IF n = 0
       THEN /\ pc' = [pc EXCEPT ![p] = "returned"]       \* dataframe.empty: return 0
            /\ ret' = [ret EXCEPT ![p] = 0]
       ELSE /\ pc' = [pc EXCEPT ![p] = "iter"]
            /\ ret' = [ret EXCEPT ![p] = NoValue]
    /\ UNCHANGED <<store, loaderFrame>>

\* lines 124-125: except Exception: logger.error(f"... {row['title']} ...")
\* the handler itself reads row['title']: a KeyError there leaves the call
Handler(p) ==
    IF "title" \in columns[p]
    THEN /\ pc' = [pc EXCEPT ![p] = "iter"]
         /\ idx' = [idx EXCEPT ![p] = idx[p] + 1]
         /\ outcomes' = [outcomes EXCEPT ![p] = Append(outcomes[p], "failed")]
    ELSE /\ pc' = [pc EXCEPT ![p] = "raised"]
         /\ UNCHANGED <<idx, outcomes>>

\* lines 93-108, up to and including the SELECT of get_or_create
IterRow(p, r) ==
    /\ pc[p] = "iter"
    /\ idx[p] < nrows[p]
    /\ row' = [row EXCEPT ![p] = r]
    /\ published_at' = [published_at EXCEPT ![p] =
           parse_publication_datetime(RowGet(r, columns[p], "datetime", ""))]
    /\ IF parse_publication_datetime_raises(RowGet(r, columns[p], "datetime", ""))
       THEN \* line 96 raises inside the try
            /\ Handler(p)
            /\ UNCHANGED <<article, loaded>>
       ELSE IF ~({"link", "title", "source", "category"} \subseteq columns[p])
       THEN \* row['link'], row['title'], row['source'], row['category']: KeyError
            /\ Handler(p)
            /\ UNCHANGED <<article, loaded>>
       ELSE IF Cardinality(Matches(r)) > 1
       THEN \* Article.MultipleObjectsReturned
            /\ Handler(p)
            /\ UNCHANGED <<article, loaded>>
       ELSE IF Matches(r) = {}
       THEN /\ pc' = [pc EXCEPT ![p] = "create"]
            /\ UNCHANGED <<article, loaded, idx, outcomes>>
       ELSE /\ article' = [article EXCEPT ![p] =
                               store[CHOOSE i \in Matches(r) : TRUE]]
            /\ loaded' = [loaded EXCEPT ![p] =
                               store[CHOOSE i \in Matches(r) : TRUE]]
            /\ pc' = [pc EXCEPT ![p] = "save"]
            /\ UNCHANGED <<idx, outcomes>>
    /\ UNCHANGED <<dbVars, loaderFrame, batch, columns, nrows,
                   articles_created, articles_updated, countAtStart, repeatOf, ret>>

\* get_or_create found no row: INSERT, then lines 110-111
CreateArticle(p) ==
    /\ pc[p] = "create"
    /\ IF StorageRejects(row[p].title)
       THEN /\ Handler(p)
            /\ UNCHANGED <<store, article, articles_created>>
       ELSE /\ store' = Append(store, NewArticle(row[p], columns[p], published_at[p]))
            /\ article' = [article EXCEPT ![p] =
                               NewArticle(row[p], columns[p], published_at[p])]
            /\ articles_created' = [articles_created EXCEPT ![p] = @ + 1]
            /\ outcomes' = [outcomes EXCEPT ![p] = Append(outcomes[p], "created")]
            /\ idx' = [idx EXCEPT ![p] = idx[p] + 1]
            /\ pc' = [pc EXCEPT ![p] = "iter"]
    /\ UNCHANGED <<now, loaderFrame, batch, columns, nrows, row, published_at,
                   loaded, articles_updated, countAtStart, repeatOf, ret>>

\* get_or_create found the row: lines 112-122; article.save() is an UPDATE by id
SaveArticle(p) ==
    /\ pc[p] = "save"
    /\ IF StorageRejects(row[p].title)
       THEN /\ Handler(p)
            /\ UNCHANGED <<store, article, articles_updated>>
       ELSE /\ store' = [store EXCEPT ![RowOfId(article[p].id)] =
                   UpdatedArticle(article[p], row[p], columns[p], published_at[p])]
            /\ article' = [article EXCEPT ![p] =
                   UpdatedArticle(article[p], row[p], columns[p], published_at[p])]
            /\ articles_updated' = [articles_updated EXCEPT ![p] = @ + 1]
            /\ outcomes' = [outcomes EXCEPT ![p] = Append(outcomes[p], "updated")]
            /\ idx' = [idx EXCEPT ![p] = idx[p] + 1]
            /\ pc' = [pc EXCEPT ![p] = "iter"]
    /\ UNCHANGED <<now, loaderFrame, batch, columns, nrows, row, published_at,
                   loaded, articles_created, countAtStart, repeatOf, ret>>

\* the value handed back at line 128
ReturnValue_CreatedAndUpdated(p) == articles_created[p] + articles_updated[p]

ReturnValue(p) == articles_created[p]

\* lines 127-128 (and 144-145 when called through load_all_data); the locals
\* row, article, published_at end with the call
ReturnCreated(p) ==
    /\ pc[p] = "iter"
    /\ idx[p] = nrows[p]
    /\ pc' = [pc EXCEPT ![p] = "returned"]
    /\ ret' = [ret EXCEPT ![p] = ReturnValue(p)]
    /\ row' = [row EXCEPT ![p] = NoRow]
    /\ published_at' = [published_at EXCEPT ![p] = None]
    /\ article' = [article EXCEPT ![p] = NoArticle]
    /\ loaded' = [loaded EXCEPT ![p] = NoArticle]
    /\ UNCHANGED <<dbVars, loaderFrame, batch, columns, nrows, idx,
                   articles_created, articles_updated, outcomes, countAtStart,
                   repeatOf>>

\* iterrows() over a frame whose rows are known
BatchRow(p) ==
    /\ pc[p] = "iter"
    /\ idx[p] < nrows[p]
    /\ IterRow(p, batch[p][idx[p] + 1])

\* the process is not inside a DataLoader call
Idle(p) == pc[p] \in {"idle", "returned", "raised"}

(***************************************************************************)
(* scraper.get_dom, lines 82-100.                                          *)
(*                                                                         *)
(* What one requests.get of the loop can meet:                             *)
(*   exception    requests.get raises (timeout, transport error)           *)
(*   status       a response whose status_code is not 200                  *)
(*   parse_error  status 200, etree.fromstring raises                      *)
(*   no_root      status 200, the body holds no element (blank body or     *)
(*                comments only): etree.fromstring with an HTMLParser      *)
(*                returns None for a document without a root element       *)
(*   ok           status 200, etree.fromstring returns the root element    *)
(***************************************************************************)
MaxAttempts == 5

AttemptOutcomes == {"exception", "status", "parse_error", "no_root", "ok"}

GetDomCall ==
    /\ dom_pc = "idle"
    /\ dom_pc' = "loop"
    /\ attempt' = 0
    /\ responses' = << >>
    /\ dom' = "unset"
    /\ UNCHANGED <<dbVars, files, loaderVars, restVars, orchVars>>

\* the body of `if response.status_code == 200:` hands back what fromstring gave
ParsedDom(o) ==
    CASE o = "ok" -> "Element"
      [] o = "no_root" -> "None"
      [] OTHER -> "retry"

\* one turn of the loop, lines 85-99
GetDomAttempt(o) ==
    /\ dom_pc = "loop"
    /\ attempt < MaxAttempts
    /\ responses' = Append(responses, o)
    /\ IF ParsedDom(o) # "retry"
       THEN /\ dom' = ParsedDom(o)              \* line 95: return dom
            /\ dom_pc' = "returned"
            /\ UNCHANGED attempt
       ELSE /\ attempt' = attempt + 1           \* next turn
            /\ UNCHANGED <<dom, dom_pc>>
    /\ UNCHANGED <<dbVars, files, loaderVars, restVars, orchVars>>

\* line 100: the loop is exhausted
GetDomExhausted ==
    /\ dom_pc = "loop"
    /\ attempt = MaxAttempts
    /\ dom' = "None"
    /\ dom_pc' = "returned"
    /\ UNCHANGED <<dbVars, files, loaderVars, restVars, attempt, responses, orchVars>>

\* the caller takes the value; the next call may begin
GetDomDone ==
    /\ dom_pc = "returned"
    /\ dom_pc' = "idle"
    /\ UNCHANGED <<dbVars, files, loaderVars, restVars, attempt, responses, dom, orchVars>>

(***************************************************************************)
(* The orchestrators: scraper.scrape_all_news (lines 491-555) and          *)
(* admin_views.scrape_all_news_with_progress (lines 204-243).              *)
(***************************************************************************)
\* the registry `scrapers` of both functions, and what the extractor puts into
\* the "source" and "category" of its records
Scrapers == <<
    [name |-> "TechCrunch", label |-> "Technology", func |-> "scrape_tech_techcrunch",
     source |-> "TechCrunch", category |-> "technology"],
    [name |-> "The Verge", label |-> "Technology", func |-> "scrape_tech_theverge",
     source |-> "The Verge", category |-> "technology"],
    [name |-> "Indian Express", label |-> "Economy",
     func |-> "scrape_economy_indianexpress",
     source |-> "Indian Express", category |-> "economy"],
    [name |-> "Economic Times", label |-> "Economy",
     func |-> "scrape_economy_economictimes",
     source |-> "Economic Times", category |-> "economy"],
    [name |-> "Indian Express", label |-> "Sports",
     func |-> "scrape_sports_indianexpress",
     source |-> "Indian Express", category |-> "sports"],
    [name |-> "Hindustan Times", label |-> "Sports",
     func |-> "scrape_sports_hindustantimes",
     source |-> "Hindustan Times", category |-> "sports"],
    [name |-> "Economic Times", label |-> "Politics",
     func |-> "scrape_politics_economictimes",
     source |-> "Economic Times", category |-> "politics"],
    [name |-> "NY Times", label |-> "Politics", func |-> "scrape_politics_nytimes",
     source |-> "New York Times", category |-> "politics"],
    [name |-> "Indian Express", label |-> "Lifestyle",
     func |-> "scrape_lifestyle_indianexpress",
     source |-> "Indian Express", category |-> "lifestyle"],
    [name |-> "Fox News", label |-> "Lifestyle", func |-> "scrape_lifestyle_foxnews",
     source |-> "Fox News", category |-> "lifestyle"],
    [name |-> "Indian Express", label |-> "Entertainment",
     func |-> "scrape_entertainment_indianexpress",
     source |-> "Indian Express", category |-> "entertainment"],
    [name |-> "Variety", label |-> "Entertainment",
     func |-> "scrape_entertainment_variety",
     source |-> "Variety", category |-> "entertainment"] >>

NumScrapers == Len(Scrapers)

\* the record an extractor builds for a candidate block
Record(k) ==
    [title |-> "X", link |-> "https://site.example/" \o Scrapers[k].func,
     image |-> "", source |-> Scrapers[k].source,
     category |-> Scrapers[k].category, datetime |-> "6 Oct 2025, 16:42"]

\* how a call of extractor k can end: it raises, or returns its list of records
ExtractorResults(k) ==
    {[raised |-> TRUE, data |-> << >>],
     [raised |-> FALSE, data |-> << >>],
     [raised |-> FALSE, data |-> <<Record(k)>>]}

\* the index the loop goes on with after extractor k raised
AfterRaise_Abandons(k) == NumScrapers

AfterRaise(k) == k

\* the index the loop goes on with after extractor k returned
AfterReturn_SkipsNext(k) == IF k + 1 < NumScrapers THEN k + 1 ELSE k

AfterReturn(k) == k

\* what the run remembers of the call of extractor k that ended in res
Call(k, res) == [func |-> Scrapers[k].func, raised |-> res.raised, data |-> res.data]

\* entry of either function: lines 494-511 / 213-227
OrchestratorCall(which) ==
    /\ orch_pc = "idle"
    /\ orch' = which
    /\ orch_pc' = "loop"
    /\ scraper_i' = 0
    /\ scraped_data' = << >>
    /\ invoked' = << >>
    /\ failed_log' = << >>
    /\ progress' = << >>
    /\ categories_stats' = << >>
    /\ sources_stats' = << >>
    /\ UNCHANGED <<dbVars, files, loaderVars, restVars, fetchVars>>

\* progress_callback(stage, articles_count, sources_completed)
Notify(kind, k, count, done) ==
    [stage |-> kind, source_name |-> Scrapers[k].name, articles_count |-> count,
     sources_completed |-> done]

\* one turn of `for source_name, category, scraper_func in scrapers`,
\* scraper.py 519-537
RunScraper(k, res) ==
    /\ orch_pc = "loop"
    /\ orch = "scrape_all_news"
    /\ scraper_i < NumScrapers
    /\ k = scraper_i + 1                     \* the registry is walked in order
    /\ invoked' = Append(invoked, Call(k, res))
    /\ IF res.raised
       THEN /\ failed_log' = Append(failed_log, Scrapers[k].func)
            /\ scraper_i' = AfterRaise(k)
            /\ UNCHANGED scraped_data
       ELSE /\ scraped_data' = scraped_data \o res.data
            /\ scraper_i' = AfterReturn(k)
            /\ UNCHANGED failed_log
    /\ UNCHANGED <<dbVars, files, loaderVars, restVars, fetchVars, orch, orch_pc, progress,
                   categories_stats, sources_stats>>

\* one turn of `for i, (source_name, category, scraper_func) in enumerate(scrapers)`,
\* admin_views.py 229-241
RunScraperWithProgress(k, res) ==
    /\ orch_pc = "loop"
    /\ orch = "scrape_all_news_with_progress"
    /\ scraper_i < NumScrapers
    /\ k = scraper_i + 1                     \* the registry is walked in order
    /\ invoked' = Append(invoked, Call(k, res))
    /\ IF res.raised
       THEN /\ progress' = progress \o
                  <<Notify("Scraping", k, Len(scraped_data), scraper_i),
                    Notify("Error scraping", k, Len(scraped_data),
                           scraper_i + 1)>>
            /\ scraper_i' = AfterRaise(k)
            /\ UNCHANGED scraped_data
       ELSE /\ scraped_data' = scraped_data \o res.data
            /\ progress' = progress \o
                  <<Notify("Scraping", k, Len(scraped_data), scraper_i),
                    Notify("Completed", k,
                           Len(scraped_data) + Len(res.data), scraper_i + 1)>>
            /\ scraper_i' = AfterReturn(k)
    /\ UNCHANGED <<dbVars, files, loaderVars, restVars, fetchVars, orch, orch_pc, failed_log,
                   categories_stats, sources_stats>>

\* dict of counts as built by lines 543-550: a key for every value that occurs
Tally_CountsPresence(data, field) ==
    [v \in {data[n][field] : n \in 1..Len(data)} |-> 1]

Tally(data, field) ==
    [v \in {data[n][field] : n \in 1..Len(data)} |->
        Cardinality({n \in 1..Len(data) : data[n][field] = v})]

\* lines 539-555 (statistics, summary, return) / line 243 (return)
OrchestratorReturn ==
    /\ orch_pc = "loop"
    /\ scraper_i = NumScrapers
    /\ orch_pc' = "returned"
    /\ IF orch = "scrape_all_news"
       THEN /\ categories_stats' = Tally(scraped_data, "category")
            /\ sources_stats' = Tally(scraped_data, "source")
       ELSE UNCHANGED <<categories_stats, sources_stats>>
    /\ UNCHANGED <<dbVars, files, loaderVars, restVars, fetchVars, orch, scraper_i,
                   scraped_data, invoked, failed_log, progress>>

(***************************************************************************)
(* The extractors: the twelve scrape_* functions, scraper.py 137-488.      *)
(*                                                                         *)
(* A text is the sequence of its characters, "" being << >>.  A URL or     *)
(* href is the sequence of its parts: scheme+host (when it has one), the   *)
(* section of the path, the rest of the path; a missing href is << >>.     *)
(***************************************************************************)
MaxBlocks == 2       \* candidate blocks of one fetched document

\* str.strip()
RECURSIVE LStrip(_)
LStrip(t) == IF t # << >> /\ Head(t) = " " THEN LStrip(Tail(t)) ELSE t

RECURSIVE RStrip(_)
RStrip(t) ==
    IF t # << >> /\ t[Len(t)] = " " THEN RStrip(SubSeq(t, 1, Len(t) - 1)) ELSE t

Strip(t) == RStrip(LStrip(t))

\* get_from_xpath, lines 103-109: result is the list the xpath query yields
get_from_xpath(result) == IF result # << >> THEN Strip(result[1]) ELSE << >>

\* dt.strftime("%-d %b %Y, %H:%M") on the points in time of DateutilParse
Strftime(dt) ==
    CASE dt = <<2025, 10, 6, 16, 42>> -> "6 Oct 2025, 16:42"
      [] dt = <<2025, 10, 7, 9, 5>> -> "7 Oct 2025, 09:05"
      [] dt = <<2025, 10, 6, 0, 0>> -> "6 Oct 2025, 00:00"

\* format_datetime, lines 121-133 (the texts carry no surrounding blanks)
format_datetime(datetime_str) ==
    IF datetime_str = ""
    THEN ""
    ELSE IF DateutilRaises(datetime_str) \/ DateutilOverflows(datetime_str)
         THEN datetime_str                      \* the bare except of line 131
         ELSE Strftime(DateutilParse(datetime_str))

\* the scheme+host the extractor puts in front of every href, "" for the
\* extractors that emit the href as it is
Prefix(k) ==
    CASE Scrapers[k].func = "scrape_tech_theverge" -> "https://www.theverge.com"
      [] Scrapers[k].func \in {"scrape_economy_economictimes",
                               "scrape_politics_economictimes"} ->
             "https://economictimes.indiatimes.com"
      [] Scrapers[k].func = "scrape_politics_nytimes" -> "https://www.nytimes.com"
      [] Scrapers[k].func = "scrape_lifestyle_foxnews" -> "https://www.foxnews.com"
      [] OTHER -> ""

\* scheme+host of the site the extractor reads
Site(k) ==
    CASE Prefix(k) # "" -> Prefix(k)
      [] Scrapers[k].source = "TechCrunch" -> "https://techcrunch.com"
      [] Scrapers[k].source = "Indian Express" -> "https://indianexpress.com"
      [] Scrapers[k].source = "Hindustan Times" -> "https://www.hindustantimes.com"
      [] Scrapers[k].source = "Variety" -> "https://variety.com"

\* the section of the path the site files its stories under
Section(k) ==
    CASE Scrapers[k].func = "scrape_lifestyle_foxnews" -> "/health/"
      [] Scrapers[k].func = "scrape_entertainment_variety" -> "/film/"
      [] Scrapers[k].func = "scrape_politics_nytimes" -> "/2025/10/06/"
      [] OTHER -> "/article/"

\* hrefs a candidate block of the site can carry: none, root-relative,
\* absolute, and one outside the section
Hrefs(k) ==
    {<< >>, <<Section(k), "a">>, <<Site(k), Section(k), "a">>, <<"/video/", "b">>}

\* text nodes the title query of a block can yield
TitleResults == {<< >>, <<<<" ", " ">>>>, <<<<" ", "T", " ">>>>, <<<<"T">>, <<"U">>>>}

\* what the time query of a block yields, as a text
TimeTexts == {"", "2025-10-06T16:42:00", "garbled###"}

Blocks(k) == [title : TitleResults, href : Hrefs(k), time : TimeTexts]

\* `needle in link`
InLink(needle, link) ==
    \E n \in 1..Len(link) :
        \/ link[n] = needle
        \/ needle = "variety.com" /\ link[n] = "https://variety.com"

\* `", " in datetime_str`
HasCommaSpace(text) ==
    text \in {"6 Oct 2025, 16:42", "7 Oct 2025, 09:05", "6 Oct 2025, 00:00"}

\* scrape_politics_nytimes line 350: the date is read off the href
HrefDate(k, href) ==
    CASE href = << >> -> ""
      [] href = <<Section(k), "a">> -> "2025-10-06"
      [] href = <<Site(k), Section(k), "a">> -> "-www.nytimes.com-2025"
      [] OTHER -> "video-b"

\* the link of the record: lines 157, 187, 244, 358, 411, 475
Link(k, href) == IF Prefix(k) = "" THEN href ELSE <<Prefix(k)>> \o href

\* the datetime of the record as the loop body leaves it
BlockDatetime(k, b) ==
    CASE Scrapers[k].func = "scrape_lifestyle_foxnews" ->
             IF b.time = "" THEN "" ELSE "list:" \o b.time   \* get_all_results(..) or ""
      [] Scrapers[k].func = "scrape_politics_nytimes" ->
             format_datetime(HrefDate(k, b.href))
      [] OTHER -> format_datetime(b.time)

\* row_data of a candidate block
RowData(k, b) ==
    [title |-> get_from_xpath(b.title), link |-> Link(k, b.href), image |-> "",
     source |-> Scrapers[k].source, category |-> Scrapers[k].category,
     datetime |-> BlockDatetime(k, b)]

\* the condition of `data.append(row_data)`: lines 163, 193, ..., 422, 486
Appended_Unconditionally(k, r) == TRUE

Appended(k, r) ==
    /\ r.title # << >>
    /\ Scrapers[k].func = "scrape_lifestyle_foxnews" => InLink("/health/", r.link)
    /\ Scrapers[k].func = "scrape_entertainment_variety" =>
           /\ InLink("variety.com", r.link)
           /\ InLink("/film/", r.link)
           /\ HasCommaSpace(r.datetime)

\* df.drop_duplicates('link', ignore_index=True): the first row of a link stays
RECURSIVE DropDuplicateLinks(_)
DropDuplicateLinks(data) ==
    IF data = << >> THEN << >>
    ELSE LET front == DropDuplicateLinks(SubSeq(data, 1, Len(data) - 1))
             last == data[Len(data)]
         IN IF \E n \in 1..Len(front) : front[n].link = last.link
            THEN front
            ELSE Append(front, last)

\* scrape_lifestyle_foxnews lines 426-427 on the rows left
RECURSIVE WithTimes(_)
WithTimes(data) ==
    IF data = << >> THEN << >>
    ELSE LET r == Head(data)
         IN IF r.datetime = ""
            THEN WithTimes(Tail(data))
            ELSE <<[r EXCEPT !.datetime =
                        format_datetime(CHOOSE t \in TimeTexts : "list:" \o t = r.datetime)]>>
                 \o WithTimes(Tail(data))

\* the test `dom is None` every extractor makes
IsNone_Never(d) == FALSE

IsNone(d) == d = "None"

\* the extractor calls get_dom on its URL: lines 145, 172, 201, ...
ScraperCall(k) ==
    /\ ex_pc = "idle"
    /\ dom_pc = "idle"
    /\ ex_k' = k
    /\ ex_pc' = "get_dom"
    /\ ex_fetches' = 1
    /\ ex_n' = 0
    /\ ex_i' = 0
    /\ ex_data' = << >>
    /\ ex_ret' = << >>
    /\ ex_log' = << >>
    /\ ex_caller' = ""
    /\ ex_report' = << >>
    /\ dom_pc' = "loop"
    /\ attempt' = 0
    /\ responses' = << >>
    /\ dom' = "unset"
    /\ UNCHANGED <<dbVars, files, loaderVars, orchVars, batchVars, aiVars>>

\* get_dom has returned: `if dom is None: return []`, else the loop over the
\* n candidate blocks of the document begins
ScraperTakeDom(n) ==
    /\ ex_pc = "get_dom"
    /\ dom_pc = "returned"
    /\ dom_pc' = "idle"
    /\ attempt' = 0
    /\ responses' = << >>
    /\ IF IsNone(dom)
       THEN /\ ex_pc' = "returned"
            /\ ex_ret' = << >>
            /\ ex_log' = IF Scrapers[ex_k].func = "scrape_tech_techcrunch"
                         THEN <<[source_name |-> Scrapers[ex_k].source,
                                 article_count |-> 0, success |-> FALSE]>>
                         ELSE << >>
            /\ UNCHANGED ex_n
       ELSE /\ ex_pc' = "blocks"
            /\ ex_n' = n
            /\ UNCHANGED <<ex_ret, ex_log>>
    /\ UNCHANGED <<dbVars, files, loaderVars, orchVars, batchVars, aiVars,
                   dom, ex_k, ex_i, ex_data,
                   ex_fetches, ex_caller, ex_report>>

\* one turn of `for each_res in dom.xpath(...)`
ScraperBlock(k, b) ==
    /\ ex_pc = "blocks"
    /\ k = ex_k
    /\ ex_i < ex_n
    /\ ex_i' = ex_i + 1
    /\ ex_data' = IF Appended(ex_k, RowData(ex_k, b))
                  THEN Append(ex_data, RowData(ex_k, b))
                  ELSE ex_data
    /\ UNCHANGED <<dbVars, files, loaderVars, fetchVars, orchVars, batchVars, aiVars,
                   ex_k, ex_pc,
                   ex_n, ex_ret, ex_fetches, ex_log, ex_caller, ex_report>>

\* the end of the function: `return data`, or lines 424-428 of
\* scrape_lifestyle_foxnews, where a DataFrame built from an empty list has no
\* column 'link' and drop_duplicates raises KeyError
ScraperReturn ==
    /\ ex_pc = "blocks"
    /\ ex_i = ex_n
    /\ IF Scrapers[ex_k].func = "scrape_lifestyle_foxnews"
       THEN IF ex_data = << >>
            THEN ex_pc' = "raised" /\ UNCHANGED ex_ret
            ELSE ex_pc' = "returned" /\ ex_ret' = WithTimes(DropDuplicateLinks(ex_data))
       ELSE ex_pc' = "returned" /\ ex_ret' = ex_data
    /\ ex_log' = IF Scrapers[ex_k].func = "scrape_tech_techcrunch"
                 THEN <<[source_name |-> Scrapers[ex_k].source,
                         article_count |-> Len(ex_data), success |-> TRUE]>>
                 ELSE << >>
    /\ UNCHANGED <<dbVars, files, loaderVars, fetchVars, orchVars, batchVars, aiVars,
                   ex_k, ex_n,
                   ex_i, ex_data, ex_fetches, ex_caller, ex_report>>

\* the loop turn of the orchestrator that made the call reports on the source:
\* scrape_all_news reports nothing when the call returned (lines 526-530) and
\* log_scraper_result(source_name, 0, False) when it raised (line 533);
\* scrape_all_news_with_progress notifies "Completed <source> (<n> articles)"
\* (line 236) or "Error scraping <source>" (line 240)
TurnReport(which) ==
    /\ ex_pc \in {"returned", "raised"}
    /\ ex_caller = ""
    /\ ex_caller' = which
    /\ ex_report' =
          IF ex_pc = "raised"
          THEN <<[source_name |-> Scrapers[ex_k].name, article_count |-> 0,
                  success |-> FALSE]>>
          ELSE IF which = "scrape_all_news"
               THEN << >>
               ELSE <<[source_name |-> Scrapers[ex_k].name,
                       article_count |-> Len(ex_ret), success |-> TRUE]>>
    /\ UNCHANGED <<dbVars, files, loaderVars, fetchVars, orchVars, batchVars, aiVars,
                   ex_k, ex_pc,
                   ex_n, ex_i, ex_data, ex_ret, ex_fetches, ex_log>>

\* the turn is over; the next extractor may be called
ScraperDone ==
    /\ ex_pc \in {"returned", "raised"}
    /\ ex_caller # ""
    /\ ex_pc' = "idle"
    /\ ex_caller' = ""
    /\ ex_report' = << >>
    /\ ex_k' = 0
    /\ ex_n' = 0
    /\ ex_i' = 0
    /\ ex_data' = << >>
    /\ ex_ret' = << >>
    /\ ex_fetches' = 0
    /\ ex_log' = << >>
    /\ dom' = "unset"
    /\ UNCHANGED <<dbVars, files, loaderVars, orchVars, batchVars, aiVars, dom_pc, attempt,
                   responses>>

InitExtract ==
    /\ ex_k = 0
    /\ ex_pc = "idle"
    /\ ex_n = 0
    /\ ex_i = 0
    /\ ex_data = << >>
    /\ ex_ret = << >>
    /\ ex_fetches = 0
    /\ ex_log = << >>
    /\ ex_caller = ""
    /\ ex_report = << >>

(***************************************************************************)
(* The admin batch console, admin_views.py: start_scraping_batch (106-137) *)
(* starts a worker thread running run_scraping_batch (139-202), which      *)
(* calls scrape_all_news_with_progress (204-243); delete_batch (295-329).  *)
(* Requests are served by threads of one process and share the dicts       *)
(* active_batches and batch_results and the data directory.                *)
(***************************************************************************)
Workers == {1, 2}            \* worker threads, one per start_scraping_batch request

Seconds == {1, 2}            \* clock readings at which a batch is started; the
                             \* batch id is strftime("%Y%m%d_%H%M%S") of the reading
LastSecond == 3              \* the last clock reading considered

TotalSources == 12

\* extractors that deliver a record in the runs considered; the others raise
\* or return an empty list
Delivering == {1, NumScrapers}

WorkerResults(k) ==
    {res \in ExtractorResults(k) : res.data # << >> => k \in Delivering}

\* a batch id without an entry in active_batches
NoEntry ==
    [status |-> "absent", current_stage |-> "", articles_scraped |-> 0,
     sources_completed |-> 0, total_sources |-> 0, end_time |-> FALSE,
     file_path |-> FALSE]

NoResult == [present |-> FALSE, article_count |-> 0]

NoFile == [exists |-> FALSE, rows |-> << >>]

\* start_scraping_batch: the id is the clock reading, the entry is (re)written
\* and the worker thread started
StartScrapingBatch(w) ==
    /\ w_pc[w] = "unstarted"
    /\ second \in Seconds
    /\ active_batches' = [active_batches EXCEPT ![second] =
           [status |-> "starting", current_stage |-> "Initializing scraper...",
            articles_scraped |-> 0, sources_completed |-> 0,
            total_sources |-> TotalSources, end_time |-> FALSE, file_path |-> FALSE]]
    /\ w_batch_id' = [w_batch_id EXCEPT ![w] = second]
    /\ w_pc' = [w_pc EXCEPT ![w] = "begin"]
    /\ UNCHANGED <<dbVars, files, loaderVars, fetchVars, orchVars, extractVars, aiVars,
                   cancel_requested, second,
                   batch_results, batch_files, w_i, w_scraped_data>>

\* the clock moves on
Tick ==
    /\ second < LastSecond
    /\ second' = second + 1
    /\ UNCHANGED <<dbVars, files, loaderVars, fetchVars, orchVars, extractVars, aiVars,
                   cancel_requested,
                   active_batches, batch_results, batch_files, w_pc, w_batch_id, w_i,
                   w_scraped_data>>

\* progress_callback, lines 147-153
progress_callback(batches, id, stage, articles_count, sources_completed) ==
    IF batches[id].status # "absent"
    THEN [batches EXCEPT ![id].current_stage = stage,
                         ![id].articles_scraped = articles_count,
                         ![id].sources_completed = sources_completed]
    ELSE batches

\* the handler of lines 196-201; its own update raises KeyError when the
\* entry is gone, which ends the thread with an unhandled exception
HandleError(w) ==
    IF active_batches[w_batch_id[w]].status # "absent"
    THEN /\ active_batches' = [active_batches EXCEPT
                ![w_batch_id[w]].status = "failed",
                ![w_batch_id[w]].current_stage = "Error",
                ![w_batch_id[w]].end_time = TRUE]
         /\ w_pc' = [w_pc EXCEPT ![w] = "done"]
    ELSE /\ w_pc' = [w_pc EXCEPT ![w] = "crashed"]
         /\ UNCHANGED active_batches

\* lines 142-156: status 'scraping', then progress_callback("Initializing
\* scraper...") with its default counts
WorkerBegin(w) ==
    /\ w_pc[w] = "begin"
    /\ IF active_batches[w_batch_id[w]].status # "absent"
       THEN /\ active_batches' =
                  progress_callback(
                      [active_batches EXCEPT ![w_batch_id[w]].status = "scraping"],
                      w_batch_id[w], "Initializing scraper...", 0, 0)
            /\ w_pc' = [w_pc EXCEPT ![w] = "scraping"]
       ELSE HandleError(w)
    /\ w_i' = [w_i EXCEPT ![w] = 0]
    /\ w_scraped_data' = [w_scraped_data EXCEPT ![w] = << >>]
    /\ UNCHANGED <<dbVars, files, loaderVars, fetchVars, orchVars, extractVars, aiVars,
                   cancel_requested, second,
                   batch_results, batch_files, w_batch_id>>

\* line 231: progress_callback(f"Scraping {source_name}...", len(scraped_data), i)
WorkerScraping(w) ==
    /\ w_pc[w] = "scraping"
    /\ w_i[w] < NumScrapers
    /\ w_i[w] = 0 => second > w_batch_id[w]     \* time.sleep(1) of line 157 is over
    /\ active_batches' = progress_callback(active_batches, w_batch_id[w], "Scraping",
                                           Len(w_scraped_data[w]), w_i[w])
    /\ w_pc' = [w_pc EXCEPT ![w] = "extractor"]
    /\ UNCHANGED <<dbVars, files, loaderVars, fetchVars, orchVars, extractVars, aiVars,
                   cancel_requested, second,
                   batch_results, batch_files, w_batch_id, w_i, w_scraped_data>>

\* the count a notification carries after an extractor has ended
CountAfter(data, res) == Len(data) + Len(res.data)

\* lines 233-241: the extractor call ends in res; the Completed or the Error
\* notification follows
WorkerExtractor(w, k, res) ==
    /\ w_pc[w] = "extractor"
    /\ k = w_i[w] + 1
    /\ LET data == IF res.raised THEN w_scraped_data[w]
                   ELSE w_scraped_data[w] \o res.data
       IN /\ w_scraped_data' = [w_scraped_data EXCEPT ![w] = data]
          /\ active_batches' =
                 progress_callback(active_batches, w_batch_id[w],
                                   IF res.raised THEN "Error scraping" ELSE "Completed",
                                   IF res.raised THEN Len(w_scraped_data[w])
                                   ELSE CountAfter(w_scraped_data[w], res),
                                   w_i[w] + 1)
    /\ w_i' = [w_i EXCEPT ![w] = k]
    /\ w_pc' = [w_pc EXCEPT ![w] = "scraping"]
    /\ UNCHANGED <<dbVars, files, loaderVars, fetchVars, orchVars, extractVars, aiVars,
                   cancel_requested, second,
                   batch_results, batch_files, w_batch_id>>

\* the test of line 161 that sends the run to the 'completed' branch
HasArticles(data) == data # << >>

\* lines 161-173: the orchestrator has returned records; the Saving
\* notification, then the snapshot file is written
WorkerSave(w) ==
    /\ w_pc[w] = "scraping"
    /\ w_i[w] = NumScrapers
    /\ HasArticles(w_scraped_data[w])
    /\ active_batches' = progress_callback(active_batches, w_batch_id[w], "Saving",
                                           Len(w_scraped_data[w]), TotalSources)
    /\ batch_files' = [batch_files EXCEPT ![w_batch_id[w]] =
                           [exists |-> TRUE, rows |-> w_scraped_data[w]]]
    /\ w_pc' = [w_pc EXCEPT ![w] = "saved"]
    /\ UNCHANGED <<dbVars, files, loaderVars, fetchVars, orchVars, extractVars, aiVars,
                   cancel_requested, second,
                   batch_results, w_batch_id, w_i, w_scraped_data>>

\* lines 175-182: the final update of the entry
WorkerCompleted(w) ==
    /\ w_pc[w] = "saved"
    /\ IF active_batches[w_batch_id[w]].status # "absent"
       THEN /\ active_batches' = [active_batches EXCEPT
                   ![w_batch_id[w]].status = "completed",
                   ![w_batch_id[w]].current_stage = "Completed successfully!",
                   ![w_batch_id[w]].end_time = TRUE,
                   ![w_batch_id[w]].articles_scraped = Len(w_scraped_data[w]),
                   ![w_batch_id[w]].file_path = TRUE]
            /\ w_pc' = [w_pc EXCEPT ![w] = "completed"]
       ELSE HandleError(w)
    /\ UNCHANGED <<dbVars, files, loaderVars, fetchVars, orchVars, extractVars, aiVars,
                   cancel_requested, second,
                   batch_results, batch_files, w_batch_id, w_i, w_scraped_data>>

\* lines 184-188: batch_results[batch_id] = {...}
WorkerStoreResults(w) ==
    /\ w_pc[w] = "completed"
    /\ batch_results' = [batch_results EXCEPT ![w_batch_id[w]] =
           [present |-> TRUE, article_count |-> Len(w_scraped_data[w])]]
    /\ w_pc' = [w_pc EXCEPT ![w] = "done"]
    /\ UNCHANGED <<dbVars, files, loaderVars, fetchVars, orchVars, extractVars, aiVars,
                   cancel_requested, second,
                   active_batches, batch_files, w_batch_id, w_i, w_scraped_data>>

\* lines 189-194: the orchestrator returned no record
WorkerNoArticles(w) ==
    /\ w_pc[w] = "scraping"
    /\ w_i[w] = NumScrapers
    /\ ~HasArticles(w_scraped_data[w])
    /\ IF active_batches[w_batch_id[w]].status # "absent"
       THEN /\ active_batches' = [active_batches EXCEPT
                   ![w_batch_id[w]].status = "failed",
                   ![w_batch_id[w]].current_stage = "No articles were scraped",
                   ![w_batch_id[w]].end_time = TRUE]
            /\ w_pc' = [w_pc EXCEPT ![w] = "done"]
       ELSE HandleError(w)
    /\ UNCHANGED <<dbVars, files, loaderVars, fetchVars, orchVars, extractVars, aiVars,
                   cancel_requested, second,
                   batch_results, batch_files, w_batch_id, w_i, w_scraped_data>>

\* delete_batch of a batch whose snapshot file exists: the file and both
\* entries are removed
DeleteBatch(id) ==
    /\ batch_files[id].exists
    /\ batch_files' = [batch_files EXCEPT ![id] = NoFile]
    /\ active_batches' = [active_batches EXCEPT ![id] = NoEntry]
    /\ batch_results' = [batch_results EXCEPT ![id] = NoResult]
    /\ UNCHANGED <<dbVars, files, loaderVars, fetchVars, orchVars, extractVars, aiVars,
                   cancel_requested, second,
                   w_pc, w_batch_id, w_i, w_scraped_data>>

\* the thread of run_scraping_batch is between its first and its last line
Running(pcw) == pcw \in {"begin", "scraping", "extractor", "saved", "completed"}

\* an operator asks for a running batch to be cancelled: the console has the
\* routes start, status, view, download and delete and none for this, and the
\* thread is started without a flag, an event or a deadline it could look
\* at, so the request reaches nothing the worker reads
CancelRequest(id) ==
    /\ \E w \in Workers : Running(w_pc[w]) /\ w_batch_id[w] = id
    /\ ~cancel_requested[id]
    /\ cancel_requested' = [cancel_requested EXCEPT ![id] = TRUE]
    /\ UNCHANGED <<dbVars, files, loaderVars, fetchVars, orchVars, extractVars, aiVars,
                   second, active_batches, batch_results, batch_files, w_pc, w_batch_id,
                   w_i, w_scraped_data>>

InitBatch ==
    /\ cancel_requested = [id \in Seconds |-> FALSE]
    /\ second = 1
    /\ active_batches = [id \in Seconds |-> NoEntry]
    /\ batch_results = [id \in Seconds |-> NoResult]
    /\ batch_files = [id \in Seconds |-> NoFile]
    /\ w_pc = [w \in Workers |-> "unstarted"]
    /\ w_batch_id = [w \in Workers |-> 0]
    /\ w_i = [w \in Workers |-> 0]
    /\ w_scraped_data = [w \in Workers |-> << >>]

(***************************************************************************)
(* Initial state: empty Article table, no call running.                    *)
(***************************************************************************)
InitLocals ==
    /\ batch = [p \in Procs |-> << >>]
    /\ columns = [p \in Procs |-> AllColumns]
    /\ nrows = [p \in Procs |-> 0]
    /\ idx = [p \in Procs |-> 0]
    /\ row = [p \in Procs |-> NoRow]
    /\ published_at = [p \in Procs |-> None]
    /\ article = [p \in Procs |-> NoArticle]
    /\ loaded = [p \in Procs |-> NoArticle]
    /\ articles_created = [p \in Procs |-> 0]
    /\ articles_updated = [p \in Procs |-> 0]
    /\ outcomes = [p \in Procs |-> << >>]
    /\ countAtStart = [p \in Procs |-> 0]
    /\ repeatOf = [p \in Procs |-> FALSE]
    /\ ret = [p \in Procs |-> NoValue]

(***************************************************************************)
(* The recommender: personalize_recommendations of GroqAIClient and of     *)
(* GeminiClient (the two bodies are the same text).  A headline is a dict; *)
(* two headlines are equal when their dicts are, which the id stands for.  *)
(* The answer of the service is kept as its pieces between commas; a piece *)
(* is a number or a text int() rejects.                                    *)
(***************************************************************************)
MaxHeadlines == 6    \* headlines handed to one call
Top == 5             \* the slots of a recommendation

Headline(v) == [id |-> v]

\* lists in which every entry is a headline of its own or equal to the first
HeadlineLists ==
    UNION {{[i \in 1..n |-> Headline(IF i \in same THEN 1 ELSE i)] :
              same \in SUBSET (2..n)} : n \in 0..MaxHeadlines}

InterestLists == {<< >>, <<"technology">>}

NonNumeric == [numeric |-> FALSE, value |-> 0]
Number(v) == [numeric |-> TRUE, value |-> v]
Pieces == {NonNumeric} \cup {Number(v) : v \in {0, 1, 2, 6, 9}}

\* response.split(','): never empty
Answers ==
    {<<a>> : a \in Pieces} \cup {<<a, b>> : a, b \in Pieces}
        \cup {<<Number(1), Number(2), Number(1), Number(2), Number(1), Number(2)>>}

NoResponse == [raised |-> FALSE, items |-> << >>]

\* the loop over response.split(','): int(item.strip()) - 1, kept when in range
recommended_indices(items, n) ==
    LET kept == SelectSeq(items, LAMBDA item :
                    item.numeric /\ 0 <= item.value - 1 /\ item.value - 1 < n)
    IN  [i \in 1..Len(kept) |-> kept[i].value - 1]

\* the loop over recommended_indices: headlines[index], 0-based
Picked(hs, indices) == [i \in 1..Len(indices) |-> hs[indices[i] + 1]]

\* s[:5]
FirstTop(s) == SubSeq(s, 1, IF Len(s) < Top THEN Len(s) ELSE Top)

\* `headline not in recommended_headlines`
NotIn(h, s) == \A i \in 1..Len(s) : s[i] # h

\* the call and its two early returns
PersonalizeCall(interests, hs) ==
    /\ pr_pc = "idle"
    /\ user_interests' = interests
    /\ headlines' = hs
    /\ IF hs = << >>
       THEN pr_ret' = << >> /\ pr_pc' = "returned"
       ELSE IF interests = << >>
            THEN pr_ret' = FirstTop(hs) /\ pr_pc' = "returned"
            ELSE pr_ret' = pr_ret /\ pr_pc' = "service"
    /\ UNCHANGED <<dbVars, files, loaderVars, fetchVars, orchVars, extractVars, batchVars,
                   response, recommended_headlines, headline_j>>

\* _generate_content returns a text; the indices are parsed and looked up
ServiceAnswers(items) ==
    /\ pr_pc = "service"
    /\ response' = [raised |-> FALSE, items |-> items]
    /\ recommended_headlines' =
           Picked(headlines, recommended_indices(items, Len(headlines)))
    /\ pr_pc' = "while"
    /\ UNCHANGED <<dbVars, files, loaderVars, fetchVars, orchVars, extractVars, batchVars,
                   user_interests, headlines, headline_j, pr_ret>>

\* anything raised inside the try: the handler returns headlines[:5]
ServiceRaises ==
    /\ pr_pc = "service"
    /\ response' = [raised |-> TRUE, items |-> << >>]
    /\ pr_ret' = FirstTop(headlines)
    /\ pr_pc' = "returned"
    /\ UNCHANGED <<dbVars, files, loaderVars, fetchVars, orchVars, extractVars, batchVars,
                   user_interests, headlines, recommended_headlines, headline_j>>

\* the test of the while loop, and the return after it
FillTest ==
    /\ pr_pc = "while"
    /\ IF /\ Len(recommended_headlines) < Top
          /\ Len(recommended_headlines) < Len(headlines)
       THEN /\ pr_pc' = "for"
            /\ headline_j' = 1
            /\ UNCHANGED pr_ret
       ELSE /\ pr_pc' = "returned"
            /\ pr_ret' = FirstTop(recommended_headlines)
            /\ UNCHANGED headline_j
    /\ UNCHANGED <<dbVars, files, loaderVars, fetchVars, orchVars, extractVars, batchVars,
                   user_interests, headlines, response, recommended_headlines>>

\* one turn of the for loop inside the while loop
FillStep ==
    /\ pr_pc = "for"
    /\ IF headline_j > Len(headlines)
       THEN /\ pr_pc' = "while"
            /\ UNCHANGED <<recommended_headlines, headline_j>>
       ELSE IF NotIn(headlines[headline_j], recommended_headlines)
            THEN /\ recommended_headlines' =
                        Append(recommended_headlines, headlines[headline_j])
                 /\ IF Len(recommended_headlines) + 1 >= Top
                    THEN pr_pc' = "while" /\ UNCHANGED headline_j      \* break
                    ELSE pr_pc' = "for" /\ headline_j' = headline_j + 1
            ELSE /\ headline_j' = headline_j + 1
                 /\ UNCHANGED <<recommended_headlines, pr_pc>>
    /\ UNCHANGED <<dbVars, files, loaderVars, fetchVars, orchVars, extractVars, batchVars,
                   user_interests, headlines, response, pr_ret>>

InitRecommend ==
    /\ pr_pc = "idle"
    /\ user_interests = << >>
    /\ headlines = << >>
    /\ response = NoResponse
    /\ recommended_headlines = << >>
    /\ headline_j = 0
    /\ pr_ret = << >>

InitScrape ==
    /\ dom_pc = "idle"
    /\ attempt = 0
    /\ responses = << >>
    /\ dom = "unset"
    /\ orch = "none"
    /\ orch_pc = "idle"
    /\ scraper_i = 0
    /\ scraped_data = << >>
    /\ invoked = << >>
    /\ failed_log = << >>
    /\ progress = << >>
    /\ categories_stats = << >>
    /\ sources_stats = << >>
    /\ InitExtract
    /\ InitBatch
    /\ InitRecommend

InitLoader ==
    /\ pc = [p \in Procs |-> "idle"]
    /\ InitLocals
    /\ InitScrape

Init ==
    /\ store = << >>
    /\ now = 0
    /\ files = {}
    /\ InitLoader

(***************************************************************************)
(* Spec: one process calls save_articles_to_database / load_all_data on    *)
(* arbitrary DataFrames, one call after another.  The rows of a DataFrame  *)
(* are drawn when iterrows() yields them.                                  *)
(***************************************************************************)
\* save_articles_to_database(dataframe) on a frame of n rows with the columns cols
CallSave ==
    \E n \in 0..MaxBatch, cols \in ColumnSets :
        /\ Idle(1)
        /\ now < MaxCalls
        /\ BeginSave(1, << >>, cols, n, FALSE)

\* load_all_data(): lines 130-142 hand the merged snapshots, a frame with the
\* snapshot columns, to save_articles_to_database and return its value
CallLoadAll ==
    \E n \in 0..MaxBatch :
        /\ Idle(1)
        /\ now < MaxCalls
        /\ BeginSave(1, << >>, AllColumns, n, FALSE)

NextRow == \E r \in Rows : IterRow(1, r)

Next ==
    \/ CallSave
    \/ CallLoadAll
    \/ NextRow
    \/ CreateArticle(1)
    \/ SaveArticle(1)
    \/ ReturnCreated(1)

Spec == Init /\ [][Next]_vars

(***************************************************************************)
(* SpecRefresh: views.refresh_news and DataLoader.load_all_data, called    *)
(* one after another in any order on the same Article table.               *)
(***************************************************************************)
\* the records scrape_all_news hands to refresh_news
ScrapedRecords == {r \in Rows : r.datetime = ""}

\* the lookup of refresh_news: get_or_create(title=..., url=..., defaults=...)
RefreshMatches(r) ==
    {i \in 1..Len(store) : store[i].title = r.title /\ store[i].url = r.link}

\* one turn of the loop of refresh_news (lines 355-366): the Article is
\* looked up by title and url and inserted with the defaults when none matches;
\* a title the column rejects raises and ends the view in its handler
RefreshNewsRecord(r) ==
    /\ Idle(1)
    /\ Len(store) < MaxCalls * MaxBatch
    /\ RefreshMatches(r) = {}
    /\ ~StorageRejects(r.title)
    /\ store' = Append(store, NewArticle(r, AllColumns, None))
    /\ UNCHANGED <<now, loaderVars, loaderFrame>>

NextRefresh ==
    \/ CallLoadAll
    \/ NextRow
    \/ CreateArticle(1)
    \/ SaveArticle(1)
    \/ ReturnCreated(1)
    \/ \E r \in ScrapedRecords : RefreshNewsRecord(r)

SpecRefresh == Init /\ [][NextRefresh]_vars

(***************************************************************************)
(* SpecReplay: a process hands a whole batch (a DataFrame whose rows are   *)
(* fixed at the call) to save_articles_to_database and, when that call is  *)
(* over, hands the same batch to it again.  The table is empty or holds an *)
(* Article of an earlier ingestion when the first pass begins.             *)
(***************************************************************************)
\* the batches differ in links, titles and origins; one timestamp text
ReplayRows == {r \in Rows : r.datetime = "6 Oct 2025, 16:42"}

Batches == UNION {[1..k -> ReplayRows] : k \in 0..MaxBatch}

StoredBefore ==
    [id |-> 1, url |-> "https://techcrunch.com/a", title |-> "Y",
     image |-> "https://img.example/1.jpg", source |-> "Fox News",
     category |-> "lifestyle", published_at |-> None, created_at |-> 0]

InitReplay ==
    /\ store \in {<< >>, <<StoredBefore>>}
    /\ now = 0
    /\ files = {}
    /\ InitLoader

\* also a frame without the optional columns read through row.get
ReplayColumnSets == ColumnSets \cup {AllColumns \ {"image", "datetime"}}

CallSaveBatch ==
    \E df \in Batches, cols \in ReplayColumnSets :
        /\ pc[1] = "idle"
        /\ BeginSave(1, df, cols, Len(df), FALSE)

CallSaveAgain ==
    /\ pc[1] \in {"returned", "raised"}
    /\ ~repeatOf[1]
    /\ BeginSave(1, batch[1], columns[1], Len(batch[1]), TRUE)

NextReplay ==
    \/ CallSaveBatch
    \/ CallSaveAgain
    \/ BatchRow(1)
    \/ CreateArticle(1)
    \/ SaveArticle(1)
    \/ ReturnCreated(1)

SpecReplay == InitReplay /\ [][NextReplay]_vars

(***************************************************************************)
(* DataLoader.get_all_csv_files / load_and_deduplicate_csv_data            *)
(*                                                                         *)
(* A snapshot file is [stamp, name, readable, rows]: stamp is the second   *)
(* in which the batch was produced, name the text strftime put into        *)
(* news_scrape_<name>.csv, rows what pd.read_csv yields (readable = FALSE: *)
(* pd.read_csv raises).                                                    *)
(***************************************************************************)
MaxFileRows == 2     \* rows of one snapshot file

Stamps == {9, 10, 11}

\* strftime("%S"): two digits, zero padded (scraper.py 577, admin_views.py 110)
FileName(stamp) == <<stamp \div 10, stamp % 10>>

\* Python's order on str: lexicographic, a proper prefix first
RECURSIVE LexLess(_, _)
LexLess(a, b) ==
    IF a = << >> THEN b # << >>
    ELSE IF b = << >> THEN FALSE
    ELSE IF Head(a) # Head(b) THEN Head(a) < Head(b)
    ELSE LexLess(Tail(a), Tail(b))

\* sorted(csv_files): the files of the directory, ascending by name
RECURSIVE get_all_csv_files(_)
get_all_csv_files(dir) ==
    IF dir = {} THEN << >>
    ELSE LET first == CHOOSE f \in dir :
                          \A g \in dir \ {f} : LexLess(f.name, g.name)
         IN  <<first>> \o get_all_csv_files(dir \ {first})

\* lines 58-72: read every file, skip the unreadable ones, pd.concat
RECURSIVE Concat(_)
Concat(csv_files) ==
    IF csv_files = << >> THEN << >>
    ELSE (IF Head(csv_files).readable THEN Head(csv_files).rows ELSE << >>)
         \o Concat(Tail(csv_files))

\* DataFrame.drop_duplicates(subset=['link'], keep='first')
RECURSIVE DropDuplicates_KeepFirst(_)
DropDuplicates_KeepFirst(df) ==
    IF df = << >> THEN << >>
    ELSE LET init == SubSeq(df, 1, Len(df) - 1)
             last == df[Len(df)]
         IN  IF \E i \in 1..Len(init) : init[i].link = last.link
             THEN DropDuplicates_KeepFirst(init)
             ELSE DropDuplicates_KeepFirst(init) \o <<last>>

\* DataFrame.drop_duplicates(subset=['link'], keep='last')
RECURSIVE DropDuplicates(_)
DropDuplicates(df) ==
    IF df = << >> THEN << >>
    ELSE IF \E i \in 2..Len(df) : df[i].link = Head(df).link
         THEN DropDuplicates(Tail(df))
         ELSE <<Head(df)>> \o DropDuplicates(Tail(df))

\* lines 47-82
load_and_deduplicate_csv_data(dir) ==
    DropDuplicates(Concat(get_all_csv_files(dir)))

\* rows of the snapshots of the model
CsvRows ==
    {r \in Rows : /\ r.datetime = "6 Oct 2025, 16:42"
                  /\ \/ r.title = "X"
                     \/ r.title = "Y" /\ r.link = "https://techcrunch.com/a"}

CsvContents == UNION {[1..k -> CsvRows] : k \in 0..MaxFileRows}

\* what the directory holds under one name: nothing, a file pd.read_csv cannot
\* read, or a snapshot
FileChoices ==
    {[kind |-> "absent", rows |-> << >>], [kind |-> "unreadable", rows |-> << >>]}
    \cup {[kind |-> "csv", rows |-> c] : c \in CsvContents}

Directory(choice) ==
    {[stamp |-> t, name |-> FileName(t), readable |-> choice[t].kind = "csv",
      rows |-> choice[t].rows] : t \in {u \in DOMAIN choice : choice[u].kind # "absent"}}

Directories == {Directory(choice) : choice \in [Stamps -> FileChoices]}

\* lines 47-82 and 135: the merged frame is in hand
LoadAndDeduplicate(p) ==
    /\ pc[p] = "idle"
    /\ pc' = [pc EXCEPT ![p] = "loaded"]
    /\ batch' = [batch EXCEPT ![p] = load_and_deduplicate_csv_data(files)]
    /\ columns' = [columns EXCEPT ![p] = AllColumns]
    /\ nrows' = [nrows EXCEPT ![p] = Len(load_and_deduplicate_csv_data(files))]
    /\ UNCHANGED <<dbVars, loaderFrame, idx, row, published_at, article, loaded,
                   articles_created, articles_updated, outcomes, countAtStart,
                   repeatOf, ret>>

\* lines 137-142: load_all_data hands the merged frame to save_articles_to_database
SaveLoaded(p) ==
    /\ pc[p] = "loaded"
    /\ BeginSave(p, batch[p], AllColumns, Len(batch[p]), FALSE)

(***************************************************************************)
(* SpecDedup: load_and_deduplicate_csv_data on every directory of at most  *)
(* one file per stamp.                                                     *)
(***************************************************************************)
InitDedup ==
    /\ store = << >>
    /\ now = 0
    /\ files \in Directories
    /\ InitLoader

NextDedup == LoadAndDeduplicate(1)

SpecDedup == InitDedup /\ [][NextDedup]_vars

(***************************************************************************)
(* NewsConfig.ready, apps.py 23-43: every application process that passes  *)
(* the guard of line 16 counts the Articles and, on an empty table, runs   *)
(* load_all_data.  The database runs one statement at a time; the SELECT   *)
(* and the INSERT of get_or_create are two statements.                     *)
(***************************************************************************)
ReadyCount(p) ==
    /\ pc[p] = "boot"
    /\ pc' = [pc EXCEPT ![p] = IF Len(store) = 0 THEN "idle" ELSE "skipped"]
    /\ UNCHANGED <<dbVars, loaderFrame, batch, columns, nrows, idx, row,
                   published_at, article, loaded, articles_created,
                   articles_updated, outcomes, countAtStart, repeatOf, ret>>

\* the data directory at start-up: one readable snapshot
StartupDirectories ==
    {d \in Directories : \E f \in d : d = {f} /\ f.readable /\ f.stamp = 9}

InitConc ==
    /\ store = << >>
    /\ now = 0
    /\ files \in StartupDirectories
    /\ pc = [p \in Procs |-> "boot"]
    /\ InitLocals
    /\ InitScrape

NextConc ==
    \E p \in Procs :
        \/ ReadyCount(p)
        \/ LoadAndDeduplicate(p)
        \/ SaveLoaded(p)
        \/ BatchRow(p)
        \/ CreateArticle(p)
        \/ SaveArticle(p)
        \/ ReturnCreated(p)

SpecConc == InitConc /\ [][NextConc]_vars

(***************************************************************************)
(* SpecFetch: calls of get_dom, every requests.get meeting any outcome.    *)
(***************************************************************************)
NextFetch ==
    \/ GetDomCall
    \/ \E o \in AttemptOutcomes : GetDomAttempt(o)
    \/ GetDomExhausted
    \/ GetDomDone

SpecFetch == Init /\ [][NextFetch]_vars

(***************************************************************************)
(* SpecOrch: one run of either orchestrator, every extractor call ending   *)
(* in any of its results.                                                  *)
(***************************************************************************)
NextOrch ==
    \/ \E which \in {"scrape_all_news", "scrape_all_news_with_progress"} :
           OrchestratorCall(which)
    \/ \E k \in 1..NumScrapers : \E res \in ExtractorResults(k) : RunScraper(k, res)
    \/ \E k \in 1..NumScrapers : \E res \in ExtractorResults(k) : RunScraperWithProgress(k, res)
    \/ OrchestratorReturn

SpecOrch == Init /\ [][NextOrch]_vars

(***************************************************************************)
(* SpecOrchFair: one run of either orchestrator in which at most           *)
(* MaxRaising extractors raise and at most MaxEmpty return an empty list.  *)
(* An extractor call returns or raises in finite time (get_dom makes at    *)
(* most 5 requests of at most 60 seconds each) and the loop is a `for`     *)
(* over the registry, so a step that can be taken is taken.                *)
(***************************************************************************)
MaxRaising == 1      \* extractors that raise in one run
MaxEmpty == 1        \* extractors that return an empty list in one run

Raising(calls) == {n \in 1..Len(calls) : calls[n].raised}

ReturningEmpty(calls) ==
    {n \in 1..Len(calls) : ~calls[n].raised /\ calls[n].data = << >>}

Admitted(res) ==
    /\ res.raised => Cardinality(Raising(invoked)) < MaxRaising
    /\ (~res.raised /\ res.data = << >>) =>
           Cardinality(ReturningEmpty(invoked)) < MaxEmpty

NextOrchBounded ==
    \/ \E which \in {"scrape_all_news", "scrape_all_news_with_progress"} :
           OrchestratorCall(which)
    \/ \E k \in 1..NumScrapers : \E res \in ExtractorResults(k) :
           Admitted(res) /\ RunScraper(k, res)
    \/ \E k \in 1..NumScrapers : \E res \in ExtractorResults(k) :
           Admitted(res) /\ RunScraperWithProgress(k, res)
    \/ OrchestratorReturn

SpecOrchFair == Init /\ [][NextOrchBounded]_vars /\ WF_vars(NextOrchBounded)

(***************************************************************************)
(* SpecExtract: loop turns of the orchestrators, each calling one          *)
(* extractor; get_dom meets any outcome and a fetched document holds any   *)
(* candidate blocks.                                                       *)
(***************************************************************************)
NextExtract ==
    \/ \E k \in 1..NumScrapers : ScraperCall(k)
    \/ \E o \in AttemptOutcomes : GetDomAttempt(o)
    \/ GetDomExhausted
    \/ \E n \in 0..MaxBlocks : ScraperTakeDom(n)
    \/ \E k \in 1..NumScrapers : \E b \in Blocks(k) : ScraperBlock(k, b)
    \/ ScraperReturn
    \/ \E which \in {"scrape_all_news", "scrape_all_news_with_progress"} :
           TurnReport(which)
    \/ ScraperDone

SpecExtract == Init /\ [][NextExtract]_vars

(***************************************************************************)
(* SpecBatch: up to two start_scraping_batch requests, in the same second  *)
(* or not, their worker threads running interleaved, and delete_batch      *)
(* requests arriving at any moment.                                        *)
(***************************************************************************)
NextBatch ==
    \/ Tick
    \/ \E id \in Seconds : DeleteBatch(id)
    \/ \E id \in Seconds : CancelRequest(id)
    \/ \E w \in Workers :
        \/ StartScrapingBatch(w)
        \/ WorkerBegin(w)
        \/ WorkerScraping(w)
        \/ \E k \in 1..NumScrapers : \E res \in WorkerResults(k) :
               WorkerExtractor(w, k, res)
        \/ WorkerSave(w)
        \/ WorkerCompleted(w)
        \/ WorkerStoreResults(w)
        \/ WorkerNoArticles(w)

SpecBatch == Init /\ [][NextBatch]_vars

\* one step of the worker thread w: every line of run_scraping_batch ends,
\* an extractor call returns or raises in finite time
WorkerStep(w) ==
    \/ WorkerBegin(w)
    \/ WorkerScraping(w)
    \/ \E k \in 1..NumScrapers : \E res \in WorkerResults(k) :
           WorkerExtractor(w, k, res)
    \/ WorkerSave(w)
    \/ WorkerCompleted(w)
    \/ WorkerStoreResults(w)
    \/ WorkerNoArticles(w)

\* SpecBatchFair: the console with the clock advancing and every started
\* thread scheduled again and again; requests (start, delete, cancel) come
\* when they come
SpecBatchFair ==
    /\ Init
    /\ [][NextBatch]_vars
    /\ WF_vars(Tick)
    /\ \A w \in Workers : WF_vars(WorkerStep(w))

(***************************************************************************)
(* One call of personalize_recommendations.                                *)
(***************************************************************************)
NextRecommend ==
    \/ \E interests \in InterestLists : \E hs \in HeadlineLists :
           PersonalizeCall(interests, hs)
    \/ \E items \in Answers : ServiceAnswers(items)
    \/ ServiceRaises
    \/ FillTest
    \/ FillStep

SpecRecommend == Init /\ [][NextRecommend]_vars

\* SpecRecommendFair: the call runs on; every step of the function ends, the
\* service answering or raising in finite time
SpecRecommendFair == Init /\ [][NextRecommend]_vars /\ WF_vars(NextRecommend)

(***************************************************************************)
(* Properties of ingestion.                                                *)
(***************************************************************************)
Last(s) == s[Len(s)]

Count(s, v) == Cardinality({i \in 1..Len(s) : s[i] = v})

\* the step just taken by p wrote an existing Article (lines 112-122 ran through)
JustUpdated(p) ==
    /\ pc[p] = "iter"
    /\ idx[p] > 0
    /\ outcomes[p][idx[p]] = "updated"

\* p takes the step that writes an existing Article
UpdateStep(p) ==
    /\ pc[p] = "save"
    /\ pc'[p] = "iter"
    /\ Len(outcomes'[p]) = Len(outcomes[p]) + 1
    /\ Last(outcomes'[p]) = "updated"

\* C1: whatever sequence of save_articles_to_database calls has run, one after
\* another, on batches that may repeat a link within and across batches, the
\* store holds at most one Article per link.
C1_OneArticlePerLink ==
    \A i, j \in 1..Len(store) : store[i].url = store[j].url => i = j

\* a second call has met, and updated, a link stored by the first; both links stored
C1_Witness ==
    /\ Len(store) = 2
    /\ now = 2
    /\ pc[1] = "returned"
    /\ "updated" \in {outcomes[1][i] : i \in 1..Len(outcomes[1])}

\* C2: when two ingestions run concurrently and both meet the same link that
\* is not yet stored, the create-or-update is one indivisible step: no
\* reachable state holds two Articles with the same url.
C2_NoDuplicateUnderConcurrency ==
    \A l \in Links : Cardinality({i \in 1..Len(store) : store[i].url = l}) <= 1

\* C3: handing the batch of the call before to save_articles_to_database again,
\* with no other change to storage in between, creates no Article: the count of
\* stored Articles stays what it was and the call returns 0.
C3_ReingestCreatesNothing ==
    \A p \in Procs :
        repeatOf[p] =>
            /\ Len(store) = countAtStart[p]
            /\ articles_created[p] = 0
            /\ pc[p] = "returned" => ret[p] = 0

\* the second pass over a batch that created Articles in its first pass has returned
C3_Witness ==
    /\ repeatOf[1]
    /\ pc[1] = "returned"
    /\ Len(batch[1]) = MaxBatch
    /\ Len(store) > 0
    /\ "updated" \in {outcomes[1][i] : i \in 1..Len(outcomes[1])}

\* C4: when a record whose link is stored is written, a stored published_at of
\* null becomes the parsed timestamp of the record if that parses, and a
\* stored published_at that is set stays as it is whatever the record's
\* timestamp (different, empty or unparsable).
C4_PublishedAtFilledOnlyWhenNull ==
    [][\A p \in Procs : UpdateStep(p) =>
          \A i \in 1..Len(store) : store[i].url = row[p].link =>
              LET raw == RowGet(row[p], columns[p], "datetime", "")
              IN  /\ (store[i].published_at = None /\ ~DateutilRaises(raw))
                        => store'[i].published_at = DateutilParse(raw)
                  /\ store[i].published_at # None
                        => store'[i].published_at = store[i].published_at
                  /\ (store[i].published_at = None /\ DateutilRaises(raw))
                        => store'[i].published_at = None]_vars

\* a stored null published_at has just been filled by a re-ingested record
C4_Witness ==
    /\ JustUpdated(1)
    /\ loaded[1].published_at = None
    /\ article[1].published_at = <<2025, 10, 6, 16, 42>>
    /\ store[RowOfId(article[1].id)].published_at = <<2025, 10, 6, 16, 42>>

\* C5: when a record whose link is stored is written, the stored title, source,
\* category and image become the record's, no Article is added, the Article's
\* url and created_at stay as they were, and no other Article changes.
C5_UpdateOverwritesAndKeepsIdentity ==
    [][\A p \in Procs : UpdateStep(p) =>
          /\ Len(store') = Len(store)
          /\ \A i \in 1..Len(store) :
                IF store[i].url = row[p].link
                THEN /\ store'[i].title = row[p].title
                     /\ store'[i].source = row[p].source
                     /\ store'[i].category = row[p].category
                     /\ store'[i].image = RowGet(row[p], columns[p], "image", "")
                     /\ store'[i].url = store[i].url
                     /\ store'[i].created_at = store[i].created_at
                     /\ store'[i].id = store[i].id
                ELSE store'[i] = store[i]]_vars

\* an Article created by an earlier call has just got another title and source
C5_Witness ==
    /\ JustUpdated(1)
    /\ loaded[1].title # article[1].title
    /\ loaded[1].source # article[1].source
    /\ loaded[1].created_at < now
    /\ store[RowOfId(article[1].id)] = article[1]

\* the readable snapshots that hold a row with the link l
Holding(l) ==
    {f \in files : f.readable /\ \E i \in 1..Len(f.rows) : f.rows[i].link = l}

\* the row of l that was produced last: in the youngest snapshot, its last row of l
LastOccurrence(l) ==
    LET f == CHOOSE g \in Holding(l) : \A h \in Holding(l) : h.stamp <= g.stamp
        k == CHOOSE i \in 1..Len(f.rows) :
                 /\ f.rows[i].link = l
                 /\ \A j \in 1..Len(f.rows) : f.rows[j].link = l => j <= i
    IN  f.rows[k]

\* C6: the frame returned by load_and_deduplicate_csv_data has exactly one row
\* for every link that occurs in a snapshot, none for any other link, and the
\* row of a link is its last occurrence when the snapshots are taken oldest
\* first.
C6_MostRecentSnapshotWins ==
    pc[1] = "loaded" =>
        /\ \A l \in Links :
              Cardinality({i \in 1..Len(batch[1]) : batch[1][i].link = l})
                = IF Holding(l) = {} THEN 0 ELSE 1
        /\ \A i \in 1..Len(batch[1]) :
              batch[1][i] = LastOccurrence(batch[1][i].link)

\* two snapshots hold the same link with different titles, the younger one
\* twice, and the merged frame is in hand
C6_Witness ==
    /\ pc[1] = "loaded"
    /\ \E f, g \in files :
          /\ f.stamp = 9 /\ g.stamp = 10
          /\ Len(f.rows) = 1 /\ Len(g.rows) = 2
          /\ f.rows[1].link = g.rows[1].link
          /\ g.rows[2].link = g.rows[1].link
          /\ f.rows[1].title # g.rows[2].title
          /\ g.rows[1].title # g.rows[2].title
          /\ batch[1] = <<g.rows[2]>>

\* C7: a failure while ingesting one record never aborts the call: the call
\* never ends by raising.
C7_FailureNeverAborts ==
    \A p \in Procs : pc[p] # "raised"

\* C8: the value returned is the number of records for which an Article was
\* inserted; updated and failed records are not counted, and every record of the
\* batch has exactly one of the outcomes created, updated, failed.
C8_ReturnsCreatedCount ==
    \A p \in Procs :
        pc[p] = "returned" =>
            /\ ret[p] = Len(store) - countAtStart[p]
            /\ ret[p] = Count(outcomes[p], "created")
            /\ articles_updated[p] = Count(outcomes[p], "updated")
            /\ Len(outcomes[p]) = nrows[p]
            /\ Count(outcomes[p], "created") + Count(outcomes[p], "updated")
                 + Count(outcomes[p], "failed") = nrows[p]

\* a call has returned 1 for a batch with one created and one updated record
C8_Witness ==
    /\ pc[1] = "returned"
    /\ outcomes[1] = <<"created", "updated">>
    /\ ret[1] = 1

(***************************************************************************)
(* Properties of the page fetcher and the orchestrators.                   *)
(***************************************************************************)
\* C9: get_dom makes at most 5 attempts, none after the first that yields
\* HTTP 200 with a parseable body, counts every other attempt as failed, and
\* returns None exactly when all 5 attempts failed.
C9_NoneOnlyAfterFiveFailures ==
    /\ Len(responses) <= MaxAttempts
    /\ \A n \in 1..Len(responses) : responses[n] = "ok" => n = Len(responses)
    /\ dom_pc = "returned" =>
          (dom = "None" <=> /\ Len(responses) = MaxAttempts
                            /\ \A n \in 1..Len(responses) : responses[n] # "ok")

\* the records of the extractors that returned normally, in call order
RECURSIVE Collected(_)
Collected(calls) ==
    IF calls = << >> THEN << >>
    ELSE Collected(SubSeq(calls, 1, Len(calls) - 1)) \o
         (IF calls[Len(calls)].raised THEN << >> ELSE calls[Len(calls)].data)

\* the extractors the orchestrator has reported as failed
ReportedFailed ==
    IF orch = "scrape_all_news"
    THEN {k \in 1..NumScrapers :
             \E n \in 1..Len(failed_log) : failed_log[n] = Scrapers[k].func}
    ELSE {k \in 1..NumScrapers :
             \E n \in 1..Len(progress) :
                 progress[n].stage = "Error scraping" /\ progress[n].sources_completed = k}

\* C10: whichever extractors raise, the orchestrator calls every extractor of
\* the registry, returns the concatenation of the records of those that
\* returned normally and nothing for one that raised, and reports as failed
\* exactly the extractors that raised.
C10_RaisingExtractorsAreIsolated ==
    orch_pc = "returned" =>
        /\ Len(invoked) = NumScrapers
        /\ scraped_data = Collected(invoked)
        /\ ReportedFailed = {k \in 1..NumScrapers : invoked[k].raised}

\* a run has returned in which the first extractor raised, the last one raised
\* and extractors in between delivered records
C10_Witness ==
    /\ orch_pc = "returned"
    /\ invoked[1].raised
    /\ invoked[NumScrapers].raised
    /\ Len(scraped_data) >= 2
    /\ \E k \in 2..NumScrapers : ~invoked[k].raised /\ invoked[k].data # << >>

(***************************************************************************)
(* Properties of the extractors.                                           *)
(***************************************************************************)
\* C11: an extractor whose get_dom call returned None returns an empty list,
\* does not raise and issues no further fetch.
C11_UnavailableGivesEmpty ==
    (ex_pc \in {"blocks", "returned", "raised"} /\ dom = "None") =>
        /\ ex_pc = "returned"
        /\ ex_ret = << >>
        /\ ex_fetches = 1
        /\ dom_pc = "idle"

\* scrape_lifestyle_foxnews has returned after its get_dom call gave None
C11_Witness ==
    /\ ex_pc = "returned"
    /\ dom = "None"
    /\ ex_ret = << >>
    /\ Scrapers[ex_k].func = "scrape_lifestyle_foxnews"

\* C12: no record in the list an extractor builds or returns has an empty
\* title: a block whose title is missing or only blanks is discarded.
C12_NoEmptyTitle ==
    /\ \A n \in 1..Len(ex_data) : Strip(ex_data[n].title) # << >>
    /\ \A n \in 1..Len(ex_ret) : Strip(ex_ret[n].title) # << >>
    /\ \A n \in 1..Len(scraped_data) : scraped_data[n].title # ""

\* scrape_tech_techcrunch has returned one record from a document of two
\* candidate blocks: the other block was discarded for its title
C12_Witness ==
    /\ ex_pc = "returned"
    /\ Scrapers[ex_k].func = "scrape_tech_techcrunch"
    /\ ex_n = 2
    /\ Len(ex_ret) = 1

(***************************************************************************)
(* Properties of an orchestration run.                                     *)
(***************************************************************************)
\* position in the registry of the extractor that built record r
RegistrationIndex(r) == CHOOSE k \in 1..NumScrapers : Record(k) = r

\* C13: a run calls the 12 registered extractors once each, in registration
\* order, whatever the earlier ones did; it then returns, and the records it
\* returns are in the registration order of the extractors that built them.
C13_EachOnceInOrderThenReturns ==
    /\ [](/\ Len(invoked) <= NumScrapers
          /\ \A n \in 1..Len(invoked) : invoked[n].func = Scrapers[n].func)
    /\ [](orch_pc = "returned" =>
            /\ Len(invoked) = NumScrapers
            /\ \A m, n \in 1..Len(scraped_data) :
                   m < n => RegistrationIndex(scraped_data[m]) <
                            RegistrationIndex(scraped_data[n]))
    /\ (orch_pc = "loop" ~> orch_pc = "returned")

\* a run has returned in which extractors raised, returned nothing and
\* returned records before the last extractor delivered its record
C13_Witness ==
    /\ orch_pc = "returned"
    /\ Raising(invoked) # {}
    /\ ReturningEmpty(invoked) # {}
    /\ NumScrapers \notin Raising(invoked) \cup ReturningEmpty(invoked)
    /\ Len(scraped_data) >= 2

(***************************************************************************)
(* Properties of the admin batch console.                                  *)
(***************************************************************************)
Present(id) == active_batches[id].status # "absent"

\* C14: when the k-th extractor of a batch run has ended, the notification
\* emitted carries the number of records collected from the first k
\* extractors and sources-completed k; so the articles_scraped and
\* sources_completed seen in the entry of a batch never decrease, and
\* sources_completed never exceeds total_sources.
C14_ProgressNeverDecreases ==
    /\ [][\A w \in Workers :
            (w_i'[w] = w_i[w] + 1 /\ active_batches'[w_batch_id[w]].status # "absent") =>
                /\ active_batches'[w_batch_id[w]].articles_scraped =
                       Len(w_scraped_data'[w])
                /\ active_batches'[w_batch_id[w]].sources_completed = w_i'[w]]_vars
    /\ [][\A id \in Seconds :
            (Present(id) /\ active_batches'[id].status # "absent") =>
                /\ active_batches'[id].articles_scraped >=
                       active_batches[id].articles_scraped
                /\ active_batches'[id].sources_completed >=
                       active_batches[id].sources_completed]_vars
    /\ [](\A id \in Seconds :
            Present(id) =>
                active_batches[id].sources_completed <= active_batches[id].total_sources)

\* the worker thread of run_scraping_batch is over
Ended(pcw) == pcw \in {"done", "crashed"}

\* C15: a batch run that collected at least one record ends with status
\* 'completed' however many extractors failed or returned nothing; it ends
\* with status 'failed' only when it collected no record.
C15_PartialResultsComplete ==
    [][\A w \in Workers :
         (~Ended(w_pc[w]) /\ Ended(w_pc'[w])) =>
             /\ w_scraped_data[w] # << >> =>
                    active_batches'[w_batch_id[w]].status = "completed"
             /\ active_batches'[w_batch_id[w]].status = "failed" =>
                    w_scraped_data[w] = << >>]_vars

\* what has been reported about the source of the running loop turn
Reports == ex_log \o ex_report

\* C16: a source whose extractor failed in a run, its fetch being
\* unavailable or the extractor raising, is reported as failed with 0
\* articles, and not as completed or not at all, by both orchestrators.
C16_FailedSourceReportedFailed ==
    (ex_caller # "" /\ (dom = "None" \/ ex_pc = "raised")) =>
        /\ \E n \in 1..Len(Reports) :
               ~Reports[n].success /\ Reports[n].article_count = 0
        /\ \A n \in 1..Len(Reports) : ~Reports[n].success

\* the sum of the counts of a statistics dict
RECURSIVE Total(_)
Total(stats) ==
    IF DOMAIN stats = {} THEN 0
    ELSE LET v == CHOOSE x \in DOMAIN stats : TRUE
         IN stats[v] + Total([x \in DOMAIN stats \ {v} |-> stats[x]])

\* the number of records of data that carry value v in the field
Carrying(data, field, v) == Cardinality({n \in 1..Len(data) : data[n][field] = v})

\* C17: the statistics of scrape_all_news are derived from the records it
\* returns: the count of every category and of every source is the number of
\* returned records that carry it, and the counts per category as well as
\* the counts per source add up to the number of records.
C17_StatisticsMatchRecords ==
    (orch_pc = "returned" /\ orch = "scrape_all_news") =>
        /\ DOMAIN categories_stats =
               {scraped_data[n].category : n \in 1..Len(scraped_data)}
        /\ DOMAIN sources_stats =
               {scraped_data[n].source : n \in 1..Len(scraped_data)}
        /\ \A c \in DOMAIN categories_stats :
               categories_stats[c] = Carrying(scraped_data, "category", c)
        /\ \A src \in DOMAIN sources_stats :
               sources_stats[src] = Carrying(scraped_data, "source", src)
        /\ Total(categories_stats) = Len(scraped_data)
        /\ Total(sources_stats) = Len(scraped_data)

\* scrape_all_news has returned with a source counted four times, a category
\* counted twice and another once
C17_Witness ==
    /\ orch_pc = "returned"
    /\ orch = "scrape_all_news"
    /\ \E src \in DOMAIN sources_stats : sources_stats[src] = 4
    /\ \E c, d \in DOMAIN categories_stats :
           categories_stats[c] = 2 /\ categories_stats[d] = 1

\* a part of a URL that is a scheme+host
IsSchemeHost(part) == \E k \in 1..NumScrapers : part = Site(k)

\* C18: whatever href a candidate block carries (root-relative, absolute or
\* none), the link of the record an extractor emits is an absolute URL that
\* holds the scheme+host exactly once, at its front.
C18_LinkAbsoluteOnce ==
    \A n \in 1..Len(ex_data) :
        LET link == ex_data[n].link
        IN /\ link # << >>
           /\ IsSchemeHost(link[1])
           /\ \A m \in 2..Len(link) : ~IsSchemeHost(link[m])

\* the text is one dateutil reads a point in time from
Parsable(text) == text # "" /\ ~DateutilRaises(text) /\ ~DateutilOverflows(text)

\* the record of the step fails for a reason other than its timestamp
FailsOtherwise(p) ==
    \/ ~({"link", "title", "source", "category"} \subseteq columns[p])
    \/ StorageRejects(row'[p].title)
    \/ Cardinality(Matches(row'[p])) > 1

\* C19: a record whose timestamp text is empty, missing or unparsable is not
\* counted as failed on that account: parse_publication_datetime gives None
\* without raising, and the record is created with published_at null or
\* updated leaving published_at as it was.
C19_UnparsableTimestampIsNull ==
    [][\A p \in Procs :
         (/\ Len(outcomes'[p]) = Len(outcomes[p]) + 1
          /\ ~Parsable(RowGet(row'[p], columns[p], "datetime", ""))) =>
             /\ Last(outcomes'[p]) = "failed" => FailsOtherwise(p)
             /\ Last(outcomes'[p]) = "created" => Last(store').published_at = None
             /\ Last(outcomes'[p]) = "updated" =>
                    store'[RowOfId(article[p].id)].published_at = loaded[p].published_at
       ]_vars

(***************************************************************************)
(* Properties of the recommender.                                          *)
(***************************************************************************)
Elements(s) == {s[i] : i \in 1..Len(s)}

\* C20: a call that returns gives at most 5 items, each one of the input
\* headlines, and when the service raised or its answer held no valid index
\* the items are the first min(5, n) headlines in input order.
C20_FallbackIsFirstHeadlines ==
    pr_pc = "returned" =>
        /\ Len(pr_ret) <= 5
        /\ Elements(pr_ret) \subseteq Elements(headlines)
        /\ (\/ response.raised
            \/ recommended_indices(response.items, Len(headlines)) = << >>)
               => pr_ret = FirstTop(headlines)

\* C21: a batch whose entry says 'completed' has its snapshot file
\* news_scrape_<batch_id>.csv with one row per record the orchestrator
\* returned, and articles_scraped of the entry and article_count of the
\* batch_results entry equal that number of records; a run whose
\* orchestrator returned no record writes no snapshot file.
C21_CompletedBatchHasItsSnapshot ==
    /\ [](\A id \in Seconds :
            active_batches[id].status = "completed" =>
                /\ batch_files[id].exists
                /\ Len(batch_files[id].rows) = active_batches[id].articles_scraped
                /\ batch_results[id].present =>
                       batch_results[id].article_count = Len(batch_files[id].rows))
    /\ [][\A w \in Workers :
            (w_pc'[w] = "completed" /\ w_pc[w] # "completed") =>
                /\ batch_files'[w_batch_id[w]].rows = w_scraped_data[w]
                /\ active_batches'[w_batch_id[w]].articles_scraped =
                       Len(w_scraped_data[w])]_vars
    /\ [][\A w \in Workers :
            (w_i[w] = NumScrapers /\ w_scraped_data[w] = << >> /\ w_pc'[w] # w_pc[w]) =>
                batch_files' = batch_files]_vars

\* C22: once an operator has asked for a running batch to be cancelled, its
\* orchestration stops: no further extractor is invoked, an extractor in
\* flight at that time adds no record, and the records collected before
\* stay as they were.
C22_CancelStopsTheRun ==
    [][\A w \in Workers :
         (Running(w_pc[w]) /\ cancel_requested[w_batch_id[w]]) =>
             /\ w_scraped_data'[w] = w_scraped_data[w]
             /\ w_i'[w] = w_i[w]
             /\ w_pc'[w] # "extractor"]_vars

(***************************************************************************)
(* Properties of the two ingestion paths together.                         *)
(***************************************************************************)
\* C23: after any sequence of refresh_news and load_all_data calls no two
\* Articles carry the same url, also when the title scraped for a link
\* differs from the title stored for it.
C23_OneArticlePerUrlOnEveryPath ==
    \A l \in Links : Cardinality({i \in 1..Len(store) : store[i].url = l}) <= 1

\* the worker threads that have been started on batch id
WorkersOf(id) == {w \in Workers : w_pc[w] # "unstarted" /\ w_batch_id[w] = id}

\* C24: any two start_scraping_batch calls get distinct batch ids, also
\* within one clock second, so every active_batches entry and every
\* snapshot file is written by one worker thread only.
C24_BatchIdsAreDistinct ==
    \A id \in Seconds : Cardinality(WorkersOf(id)) <= 1

\* C25: however delete_batch(batch_id) interleaves with the worker thread of
\* that batch, the worker ends without an unhandled exception, and once the
\* worker has ended after the delete the id is in neither active_batches nor
\* batch_results.
C25_DeleteAndWorkerAgree ==
    /\ [](\A w \in Workers : w_pc[w] # "crashed")
    /\ [](\A id \in Seconds :
            (WorkersOf(id) # {} /\ \A w \in WorkersOf(id) : Ended(w_pc[w])) =>
                (~batch_files[id].exists =>
                     /\ ~batch_results[id].present
                     /\ Present(id) => active_batches[id].status = "failed"))

\* C26: the status of an entry of active_batches is one of starting,
\* scraping, completed and failed; it only moves starting -> scraping ->
\* completed or starting -> scraping -> failed, so a completed or failed
\* entry never changes status again; and the entry has an end_time exactly
\* when its status is completed or failed.
C26_StatusMovesForwardOnly ==
    /\ [](\A id \in Seconds :
            Present(id) =>
                /\ active_batches[id].status \in
                       {"starting", "scraping", "completed", "failed"}
                /\ active_batches[id].end_time <=>
                       active_batches[id].status \in {"completed", "failed"})
    /\ [][\A id \in Seconds :
            (/\ Present(id)
             /\ Present(id)'
             /\ active_batches'[id].status # active_batches[id].status) =>
                <<active_batches[id].status, active_batches'[id].status>> \in
                    {<<"starting", "scraping">>, <<"scraping", "completed">>,
                     <<"scraping", "failed">>}]_vars

\* C27: with the worker thread scheduled fairly and every extractor call
\* ending, every batch started by start_scraping_batch eventually has status
\* completed or failed in active_batches; none stays starting or scraping.
C27_EveryBatchEnds ==
    \A w \in Workers : \A id \in Seconds :
        (w_pc[w] = "begin" /\ w_batch_id[w] = id) ~>
            (active_batches[id].status \in {"completed", "failed"})

(***************************************************************************)
(* Properties of an extractor on a fetched document.                       *)
(***************************************************************************)
\* C28: on a document that was fetched, an extractor ends by returning a
\* list, never by raising, whatever its candidate blocks are; when no block
\* passed its filters the list is empty.
C28_FetchedDocumentNeverRaises ==
    (ex_pc \in {"returned", "raised"} /\ dom # "None") =>
        /\ ex_pc = "returned"
        /\ ex_data = << >> => ex_ret = << >>

\* C29: personalize_recommendations terminates on every input: whatever the
\* interests, the headlines (equal entries included) and the answer of the
\* service, the fill loop ends and the call returns.
C29_RecommendationsTerminate == (pr_pc # "idle") ~> (pr_pc = "returned")

\* the entries of s are pairwise distinct
Distinct(s) == \A i, j \in 1..Len(s) : s[i] = s[j] => i = j

\* C30: for pairwise distinct headlines the list returned holds no headline
\* twice and has exactly min(5, n) entries, whatever indices the answer
\* holds.
C30_DistinctInDistinctOut ==
    (pr_pc = "returned" /\ Distinct(headlines)) =>
        /\ Distinct(pr_ret)
        /\ Len(pr_ret) = (IF Len(headlines) < 5 THEN Len(headlines) ELSE 5)

====
